---- MODULE Spec2Model ----
(***************************************************************************)
(* Job queue and processor of sd-webui.                                    *)
(*                                                                         *)
(* The processor (services/queueProcessor.js) polls the job store, claims  *)
(* the oldest pending job, runs it through the engine, writes the          *)
(* generation and image records and sets the final status.  The HTTP layer *)
(* (server.js) enqueues jobs and cancels them.  The job store              *)
(* (db/queueQueries.js) is not part of the sources at hand; its operations *)
(* are modelled from the specification (section 4.3).                      *)
(*                                                                         *)
(* Progress values are kept in tenths: 1, 3, 7, 9, 10 stand for            *)
(* 0.1, 0.3, 0.7, 0.9, 1.0.                                                *)
(*                                                                         *)
(* Further parts stand beside the queue, each with a specification of      *)
(* its own: the parameters a job function hands to the engine              *)
(* (SpecDispatch), the model manager with its start and stop routes        *)
(* (SpecManager), the process registry called directly (SpecRegistry),     *)
(* the model downloader (SpecDownload), the event bus of section 4.6       *)
(* (SpecBus), the schema migrations (SpecMigrate) and the routing of GET   *)
(* requests (SpecRoutes).  SpecDrain is the single-process queue under     *)
(* fair scheduling.                                                        *)
(***************************************************************************)
EXTENDS Integers, Sequences, FiniteSets, TLC

\* ---------------------------------------------------------------- bounds
MaxJobs == 2
MaxImages == 1
MaxPorts == 2
MaxSpawns == 2
MaxTick == 1
MaxFileSize == 2
MaxAttempts == 2
MaxPublished == 2
BufferSize == 1

\* ------------------------------------------------------------- constants
\* Processor instances.  A single server runs loop 1 only; scenario S6 runs
\* two loops (two server processes) against the same store.
Loops == {1, 2}

JobTypes == {"generate", "edit", "variation", "upscale"}

\* `req.body.model || 'sd-cpp-local'`
DefaultModel == "sd-cpp-local"

\* Model ids a request may carry; NoModel stands for an absent field.  The
\* processor never reads the model id, whatever the job type, so an id
\* without a descriptor is sent through the generate route only.
NoModel == ""
RequestModels == {NoModel, DefaultModel, "no-such-model"}
SourceImageRequestModels == {NoModel, DefaultModel}

\* Model ids that have a descriptor.
KnownModels == {DefaultModel}

NoJob == 0

VARIABLES
    jobs,          \* store rows: id -> [type, model, created_at, error]
    statusHist,    \* id -> every status the row has had, oldest first
    progHist,      \* id -> every progress value written, oldest first
    now,           \* clock of the store (Date.now())
    isProcessing,  \* loop -> module flag isProcessing
    currentJob,    \* loop -> module variable currentJob (NoJob = null)
    pc,            \* loop -> where processQueue is suspended
    imagesLeft,    \* loop -> entries of response.data not yet saved
    engineCalled,  \* ids for which generateImageDirect has been called
    raised,        \* id -> message of the error thrown while it ran ("" = none)
    claimedBy,     \* id -> loops that selected the job
    savedImages,   \* id -> generated-image records written for the job
    response,      \* answer of DELETE /api/queue/:id sent by the last step, if any
    queuedJob,     \* parameter study: the job row handed to a job function
    modelParams,   \* parameter study: generation_params of the job's model
    dispatched,    \* parameter study: what was built for the engine, if anything
    processes,     \* process registry: model id -> process record
    usedPorts,     \* process registry: set of occupied ports
    children,      \* pid -> child process spawned by the manager
    startReq,      \* start request -> where startModel is suspended
    killing,       \* model id -> pid of the child a stop is terminating
    regNow,        \* clock read by the registry (Date.now())
    regResult,     \* outcome of the registry or manager call made by the last step
    remoteFiles,   \* downloader: file -> bytes the registry serves for it
    destFiles,     \* downloader: file -> bytes of the destination, if it exists
    downloadJob,   \* downloader: the entry of downloadJobs under study
    downloadTask,  \* downloader: where downloadModel is suspended
    downloadLog,   \* downloader: requests sent and what happened to the job
    eventBus,      \* event bus: subscriber table and the messages published
    db,            \* database: the generations table and the queue table
    upLog,         \* migrations applied, and the outcome of the latest up
    apiStore,      \* what the route handlers look up: jobs, models, downloads
    exchange       \* the latest HTTP request and the answer it got

vars == <<jobs, statusHist, progHist, now, isProcessing, currentJob, pc,
          imagesLeft, engineCalled, raised, claimedBy, savedImages, response,
          queuedJob, modelParams, dispatched,
          processes, usedPorts, children, startReq, killing, regNow, regResult,
          remoteFiles, destFiles, downloadJob, downloadTask, downloadLog,
          eventBus, db, upLog, apiStore, exchange>>

\* state of the queue and of the processor loops
queueVars == <<jobs, statusHist, progHist, now, isProcessing, currentJob, pc,
               imagesLeft, engineCalled, raised, claimedBy, savedImages, response>>

\* state of the parameter study
dispatchVars == <<queuedJob, modelParams, dispatched>>

\* state of the process registry and of the model manager
registryVars == <<processes, usedPorts, children, startReq, killing, regNow,
                  regResult>>

\* state of the model downloader
downloadVars == <<remoteFiles, destFiles, downloadJob, downloadTask, downloadLog>>

\* everything the queue and the processor loops never touch
\* state of the components that stand apart from all of the above
apartVars == <<eventBus, db, upLog, apiStore, exchange>>

outsideQueue == <<dispatchVars, registryVars, downloadVars, apartVars>>

procVars == <<isProcessing, currentJob, pc, imagesLeft>>

\* no DELETE /api/queue/:id was answered in this step
NoResponse == [id |-> NoJob, code |-> 0]
noAnswer == response' = NoResponse

JobIds == DOMAIN jobs

Last(s) == s[Len(s)]

\* the value of an optional field that is defined ({v})
the(S) == CHOOSE x \in S : TRUE

Status(j) == Last(statusHist[j])

\* progress column: DEFAULT 0, else the last value written
Progress(j) == IF progHist[j] = <<>> THEN 0 ELSE Last(progHist[j])

\* ------------------------------------------------------------- job store
\* (db/queueQueries.js, modelled from the specification)

\* pending rows
PendingJobs == {j \in JobIds : Status(j) = "pending"}

\* next_pending(): oldest pending job by created_at, or none.  Rows with the
\* same created_at are returned in an order the store does not fix.
getNextPendingJob ==
    {j \in PendingJobs : \A k \in PendingJobs : jobs[j].created_at <= jobs[k].created_at}

\* set_status(id, status, extras): the status column
updateJobStatus(sh, j, s) == [sh EXCEPT ![j] = Append(@, s)]

\* set_progress(id, p)
updateJobProgress(ph, j, v) == [ph EXCEPT ![j] = Append(@, v)]

\* set_status(id, completed): a completed row carries progress 1.0
completedProgress(ph, j) == updateJobProgress(ph, j, 10)

\* extras.error of set_status
setError(js, j, msg) == [js EXCEPT ![j].error = msg]

\* cancel(id): only from pending; returns the row, or null
cancelJob(id) == IF id \in JobIds /\ Status(id) = "pending" THEN id ELSE NoJob

\* enqueue(fields): new row, status pending, created_at = now; d is the time
\* passed since the previous enqueue (two rows may share a millisecond)
addToQueue(type, model, d) ==
    /\ Len(jobs) < MaxJobs
    /\ jobs = <<>> => d = 1
    /\ now' = now + d
    /\ jobs' = Append(jobs, [type |-> type, model |-> model,
                             created_at |-> now + d, error |-> ""])
    /\ statusHist' = Append(statusHist, <<"pending">>)
    /\ progHist' = Append(progHist, <<>>)
    /\ raised' = Append(raised, "")
    /\ claimedBy' = Append(claimedBy, {})
    /\ savedImages' = Append(savedImages, 0)
    /\ UNCHANGED <<procVars, engineCalled>> /\ noAnswer /\ UNCHANGED outsideQueue

\* ------------------------------------------------------------ HTTP layer
requestModel(m) == IF m = NoModel THEN DefaultModel ELSE m

\* POST /api/queue/generate
QueueGenerate == \E m \in RequestModels, d \in 0..1 :
    addToQueue("generate", requestModel(m), d)

\* POST /api/queue/edit
QueueEdit == \E m \in SourceImageRequestModels, d \in 0..1 :
    addToQueue("edit", requestModel(m), d)

\* POST /api/queue/variation
QueueVariation == \E m \in SourceImageRequestModels, d \in 0..1 :
    addToQueue("variation", requestModel(m), d)

\* An upscale row put into the store (the store accepts every job type).
QueueUpscale == \E d \in 0..1 : addToQueue("upscale", DefaultModel, d)

cancelResponse_always200(job) == 200

\* `if (!job) return res.status(404)...; res.json({success: true, job})`
cancelResponse(job) == IF job = NoJob THEN 404 ELSE 200

\* DELETE /api/queue/:id
CancelRequest == \E id \in 1..MaxJobs :
    LET job == cancelJob(id) IN
    /\ statusHist' = IF job = NoJob THEN statusHist
                     ELSE updateJobStatus(statusHist, job, "cancelled")
    /\ response' = [id |-> id, code |-> cancelResponse(job)]
    /\ UNCHANGED <<jobs, progHist, now, procVars, engineCalled, raised,
                   claimedBy, savedImages>>
    /\ UNCHANGED outsideQueue

\* -------------------------------------------------------------- processor
alreadyProcessing_never(p) == FALSE

\* `if (isProcessing) return;`
alreadyProcessing(p) == isProcessing[p]

markProcessing_skipped(sh, j) == sh

\* `updateJobStatus(job.id, 'processing')`
markProcessing(sh, j) == updateJobStatus(sh, j, "processing")

progressBeforeEngine_swapped(type) ==
    IF type = "generate" THEN <<3, 1>> ELSE <<3>>

\* progress written before the engine is awaited: processGenerateJob writes
\* 0.1 and 0.3, processEditJob and processVariationJob write 0.3 only
progressBeforeEngine(type) ==
    IF type = "generate" THEN <<1, 3>> ELSE <<3>>

RECURSIVE writeProgress(_, _, _)
writeProgress(ph, j, vs) ==
    IF vs = <<>> THEN ph
    ELSE writeProgress(updateJobProgress(ph, j, Head(vs)), j, Tail(vs))

\* the switch on job.type
knownType(type) == type \in {"generate", "edit", "variation"}

unknownTypeMessage(type) == "Unknown job type: " \o type

releaseFlag_kept(f, p) == f

\* finally { isProcessing = false; ... }
releaseFlag(f, p) == [f EXCEPT ![p] = FALSE]

\* catch (error) { updateJobStatus(job.id, 'failed', {error: error.message}) }
\* finally { isProcessing = false; currentJob = null; }
\* applied to the store as left by the statement that threw (sh).
failJob(p, j, sh, msg) ==
    /\ statusHist' = updateJobStatus(sh, j, "failed")
    /\ jobs' = setError(jobs, j, msg)
    /\ raised' = [raised EXCEPT ![j] = msg]
    /\ isProcessing' = releaseFlag(isProcessing, p)
    /\ currentJob' = [currentJob EXCEPT ![p] = NoJob]
    /\ pc' = [pc EXCEPT ![p] = "idle"]
    /\ imagesLeft' = [imagesLeft EXCEPT ![p] = 0]

\* updateJobStatus(job.id, 'completed', {generation_id}) and the finally block
completeJob(p, j, ph) ==
    /\ statusHist' = updateJobStatus(statusHist, j, "completed")
    /\ progHist' = completedProgress(ph, j)
    /\ isProcessing' = releaseFlag(isProcessing, p)
    /\ currentJob' = [currentJob EXCEPT ![p] = NoJob]
    /\ pc' = [pc EXCEPT ![p] = "idle"]
    /\ imagesLeft' = [imagesLeft EXCEPT ![p] = 0]
    /\ UNCHANGED <<jobs, raised>>

\* processQueue from `isProcessing = true` to the first await: the status
\* update, the switch on the type and, for the three known types, the
\* progress writes that precede the call of generateImageDirect.
startJob(p, j) ==
    LET sh == markProcessing(statusHist, j) IN
    /\ IF knownType(jobs[j].type)
       THEN /\ statusHist' = sh
            /\ progHist' = writeProgress(progHist, j, progressBeforeEngine(jobs[j].type))
            /\ engineCalled' = engineCalled \cup {j}
            /\ isProcessing' = [isProcessing EXCEPT ![p] = TRUE]
            /\ currentJob' = [currentJob EXCEPT ![p] = j]
            /\ pc' = [pc EXCEPT ![p] = "engine"]
            /\ UNCHANGED <<jobs, raised, imagesLeft>>
       ELSE /\ failJob(p, j, sh, unknownTypeMessage(jobs[j].type))
            /\ UNCHANGED <<progHist, engineCalled>>
    /\ UNCHANGED <<now, savedImages>> /\ noAnswer /\ UNCHANGED outsideQueue

\* ghost: loop p has selected job j
selectedBy(j, p) == [claimedBy EXCEPT ![j] = @ \cup {p}]

processQueue_anyPending(p) ==
    IF alreadyProcessing(p)
    THEN UNCHANGED <<jobs, statusHist, progHist, now, procVars, engineCalled,
                     raised, claimedBy, savedImages>> /\ noAnswer /\ UNCHANGED outsideQueue
    ELSE \E j \in PendingJobs :
            startJob(p, j) /\ claimedBy' = selectedBy(j, p)

\* One poll of the processor in a server process: nothing else of that
\* process runs between getNextPendingJob and the first await.
processQueue(p) ==
    IF alreadyProcessing(p)
    THEN UNCHANGED <<jobs, statusHist, progHist, now, procVars, engineCalled,
                     raised, claimedBy, savedImages>> /\ noAnswer /\ UNCHANGED outsideQueue
    ELSE \E j \in getNextPendingJob :
            startJob(p, j) /\ claimedBy' = selectedBy(j, p)

\* generateImageDirect resolves with n images: progress 0.7, then
\* createGeneration is awaited
EngineSuccess(p) == \E n \in 0..MaxImages :
    /\ pc[p] = "engine"
    /\ progHist' = updateJobProgress(progHist, currentJob[p], 7)
    /\ imagesLeft' = [imagesLeft EXCEPT ![p] = n]
    /\ pc' = [pc EXCEPT ![p] = "record"]
    /\ UNCHANGED <<jobs, statusHist, now, isProcessing, currentJob,
                   engineCalled, raised, claimedBy, savedImages>>
    /\ noAnswer /\ UNCHANGED outsideQueue

\* generateImageDirect rejects
EngineFailure(p) ==
    /\ pc[p] = "engine"
    /\ failJob(p, currentJob[p], statusHist, "EngineError")
    /\ UNCHANGED <<progHist, now, engineCalled, claimedBy, savedImages>> /\ noAnswer /\ UNCHANGED outsideQueue

\* createGeneration resolves: progress 0.9, then the image loop; with no
\* image to save the job function returns and the job is completed
RecordCreated(p) ==
    LET j == currentJob[p]
        ph == updateJobProgress(progHist, j, 9) IN
    /\ pc[p] = "record"
    /\ IF imagesLeft[p] = 0
       THEN completeJob(p, j, ph)
       ELSE /\ progHist' = ph
            /\ pc' = [pc EXCEPT ![p] = "images"]
            /\ UNCHANGED <<jobs, statusHist, isProcessing, currentJob,
                           imagesLeft, raised>>
    /\ UNCHANGED <<now, engineCalled, claimedBy, savedImages>> /\ noAnswer /\ UNCHANGED outsideQueue

\* createGeneration rejects
RecordFailure(p) ==
    /\ pc[p] = "record"
    /\ failJob(p, currentJob[p], statusHist, "RecordError")
    /\ UNCHANGED <<progHist, now, engineCalled, claimedBy, savedImages>> /\ noAnswer /\ UNCHANGED outsideQueue

\* createGeneratedImage resolves for one image; after the last one the job
\* function returns and the job is completed
ImageSaved(p) ==
    LET j == currentJob[p] IN
    /\ pc[p] = "images"
    /\ savedImages' = [savedImages EXCEPT ![j] = @ + 1]
    /\ IF imagesLeft[p] = 1
       THEN completeJob(p, j, progHist)
       ELSE /\ imagesLeft' = [imagesLeft EXCEPT ![p] = @ - 1]
            /\ UNCHANGED <<jobs, statusHist, progHist, isProcessing,
                           currentJob, pc, raised>>
    /\ UNCHANGED <<now, engineCalled, claimedBy>> /\ noAnswer /\ UNCHANGED outsideQueue

\* createGeneratedImage rejects
ImageFailure(p) ==
    /\ pc[p] = "images"
    /\ failJob(p, currentJob[p], statusHist, "ImageError")
    /\ UNCHANGED <<progHist, now, engineCalled, claimedBy, savedImages>> /\ noAnswer /\ UNCHANGED outsideQueue

\* ------------------------------------------------- two loops on one store
\* Between two server processes the statements of processQueue interleave:
\* the select (getNextPendingJob) and the status update are separate
\* statements on the store.
SelectStep(p) ==
    /\ ~alreadyProcessing(p)
    /\ pc[p] = "idle"
    /\ \E j \in getNextPendingJob :
        /\ isProcessing' = [isProcessing EXCEPT ![p] = TRUE]
        /\ currentJob' = [currentJob EXCEPT ![p] = j]
        /\ pc' = [pc EXCEPT ![p] = "claim"]
        /\ claimedBy' = selectedBy(j, p)
    /\ UNCHANGED <<jobs, statusHist, progHist, now, imagesLeft,
                   engineCalled, raised, savedImages>>
    /\ noAnswer /\ UNCHANGED outsideQueue

UpdateStep(p) ==
    /\ pc[p] = "claim"
    /\ startJob(p, currentJob[p])
    /\ UNCHANGED claimedBy

\* ------------------------------------------------------- process registry
\* The registry (services/processTracker.js) and the manager
\* (services/modelManager.js) are not part of the sources at hand; their
\* operations are modelled from the specification (sections 4.1 and 4.2)
\* and from the registry's tests.  The start and stop routes are those of
\* server.js.

\* model ids of the configuration; every one is a server-mode model
ConfiguredModels == KnownModels \cup {"sd-xl-turbo"}

\* model ids a route may be called with
RouteModels == ConfiguredModels \cup {"no-such-model"}

\* first port of the configured range, preferred by every model
FirstPort == 8000

\* configured range, FirstPort .. FirstPort + MaxPorts - 1
PortRange == FirstPort..(FirstPort + MaxPorts - 1)

preferredPort(modelId) == FirstPort

StartRequests == {1, 2}

ProcessStatus == {"starting", "running", "stopping", "stopped", "error"}

NoProcesses == [m \in {} |-> 0]

\* arguments of a call other than registerProcess
NoArgs == [process |-> {}, port |-> {}, execMode |-> ""]

NoResult == [op |-> "", model |-> "", ok |-> TRUE, code |-> 0, error |-> "",
             args |-> NoArgs, removed |-> 0]

IdleRequest == [pc |-> "idle", model |-> "", port |-> {}, pid |-> {}]

\* Map.set / Map.delete
Put(f, k, v) == [x \in DOMAIN f \cup {k} |-> IF x = k THEN v ELSE f[x]]
Remove(f, k) == [x \in DOMAIN f \ {k} |-> f[x]]

\* the child is still a process of the operating system
Live(pid) == children[pid].state # "exited"

terminate_noSignal(ch, pid) == ch

\* SIGTERM, then SIGKILL after the grace period: the child is gone
terminate(ch, pid) == [ch EXCEPT ![pid].state = "exited"]

\* a bind to the port on loopback would succeed
isPortAvailable(port) ==
    ~\E pid \in DOMAIN children :
        children[pid].state = "listening" /\ children[pid].port = port

registerError_modeUnchecked(modelId, process, port, execMode) ==
    IF modelId = "" THEN "modelId is required"
    ELSE IF process = {} THEN "process is required"
    ELSE IF port = {} THEN "port is required"
    ELSE ""

\* argument checks of registerProcess: the message thrown, "" when none
registerError(modelId, process, port, execMode) ==
    IF modelId = "" THEN "modelId is required"
    ELSE IF process = {} THEN "process is required"
    ELSE IF port = {} THEN "port is required"
    ELSE IF execMode \notin {"server", "cli"}
         THEN "execMode must be \"server\" or \"cli\""
    ELSE ""

\* registerProcess(modelId, process, port, execMode) on the registry
\* tr = [processes, usedPorts]: a record of the same model id is replaced
\* and gives its port back, the new port is added
registerProcess(tr, modelId, process, port, execMode, time) ==
    IF registerError(modelId, process, port, execMode) # "" THEN tr
    ELSE LET kept == IF modelId \in DOMAIN tr.processes
                     THEN tr.usedPorts \ {tr.processes[modelId].port}
                     ELSE tr.usedPorts
         IN [processes |-> Put(tr.processes, modelId,
                               [pid |-> the(process), port |-> the(port),
                                execMode |-> execMode, status |-> "starting",
                                lastHeartbeat |-> time]),
             usedPorts |-> kept \cup port]

unregisterProcess_portKept(tr, modelId) ==
    IF modelId \notin DOMAIN tr.processes THEN tr
    ELSE [processes |-> Remove(tr.processes, modelId),
          usedPorts |-> tr.usedPorts]

\* unregisterProcess(modelId): releases the port; nothing on absence
unregisterProcess(tr, modelId) ==
    IF modelId \notin DOMAIN tr.processes THEN tr
    ELSE [processes |-> Remove(tr.processes, modelId),
          usedPorts |-> tr.usedPorts \ {tr.processes[modelId].port}]

\* isProcessRunning / isModelRunning: a record exists and its status is
\* neither stopped nor error
isModelRunning(modelId) ==
    /\ modelId \in DOMAIN processes
    /\ processes[modelId].status \notin {"stopped", "error"}

sendHeartbeat_alwaysRunning(procs, modelId, time) ==
    IF modelId \notin DOMAIN procs THEN procs
    ELSE [procs EXCEPT ![modelId].lastHeartbeat = time,
                       ![modelId].status = "running"]

\* sendHeartbeat(modelId): stamps the record; starting becomes running
sendHeartbeat(procs, modelId, time) ==
    IF modelId \notin DOMAIN procs THEN procs
    ELSE [procs EXCEPT ![modelId].lastHeartbeat = time,
                       ![modelId].status =
                           IF @ = "starting" THEN "running" ELSE @]

\* updateProcessStatus(modelId, status)
updateProcessStatus(procs, modelId, status) ==
    IF modelId \notin DOMAIN procs THEN procs
    ELSE [procs EXCEPT ![modelId].status = status]

Zombies_stoppedOnly(tr) ==
    {m \in DOMAIN tr.processes : tr.processes[m].status = "stopped"}

\* records cleanupZombies removes: status stopped, or pid gone
Zombies(tr) ==
    {m \in DOMAIN tr.processes :
        \/ tr.processes[m].status = "stopped"
        \/ ~Live(tr.processes[m].pid)}

\* cleanupZombies(): unregisters every zombie
cleanupZombies(tr) ==
    [processes |-> [m \in DOMAIN tr.processes \ Zombies(tr) |-> tr.processes[m]],
     usedPorts |-> tr.usedPorts \ {tr.processes[m].port : m \in Zombies(tr)}]

\* getAvailablePort(preferred): the preferred port when it is neither in
\* the used-port set nor bound, else the first bindable port of the range;
\* {} when the range has none
getAvailablePort(preferred) ==
    IF preferred \notin usedPorts /\ isPortAvailable(preferred)
    THEN {preferred}
    ELSE LET free == {q \in PortRange : isPortAvailable(q)} IN
         IF free = {} THEN {}
         ELSE {CHOOSE q \in free : \A o \in free : q <= o}

\* the registry as one value
tracker == [processes |-> processes, usedPorts |-> usedPorts]

\* --------------------------------------------------------- model manager
outsideRegistry == <<queueVars, dispatchVars, downloadVars, apartVars>>

result(op, modelId, ok, code, error) ==
    [op |-> op, model |-> modelId, ok |-> ok, code |-> code, error |-> error,
     args |-> NoArgs, removed |-> 0]

\* outcome of a registerProcess call, with the arguments it was given
registered(modelId, process, port, execMode) ==
    [op |-> "register", model |-> modelId,
     ok |-> registerError(modelId, process, port, execMode) = "",
     code |-> 0,
     error |-> registerError(modelId, process, port, execMode),
     args |-> [process |-> process, port |-> port, execMode |-> execMode],
     removed |-> 0]

startRouteStatus_noRunningCheck(modelId) ==
    IF modelId \notin ConfiguredModels THEN 404 ELSE 200

\* POST /api/models/:id/start before it calls startModel: 404 without a
\* descriptor, 409 when isModelRunning, else the start goes ahead (200)
startRouteStatus(modelId) ==
    IF modelId \notin ConfiguredModels THEN 404
    ELSE IF isModelRunning(modelId) THEN 409
    ELSE 200

startRouteError(code) ==
    IF code = 404 THEN "Model not found" ELSE "Model is already running"

\* start requests that will still spawn a child
Unspawned == {r \in StartRequests : startReq[r].pc \in {"allocate", "spawn"}}

\* the first start request that is not in flight
FreeRequest(r) ==
    /\ startReq[r].pc = "idle"
    /\ \A q \in StartRequests : q < r => startReq[q].pc # "idle"

\* POST /api/models/:id/start up to the first await of startModel
StartRoute(modelId) ==
    LET code == startRouteStatus(modelId) IN
    /\ IF code # 200
       THEN /\ regResult' = result("start", modelId, FALSE, code,
                                   startRouteError(code))
            /\ UNCHANGED startReq
       ELSE /\ Len(children) + Cardinality(Unspawned) < MaxSpawns
            /\ \E r \in StartRequests :
                /\ FreeRequest(r)
                /\ startReq' = [startReq EXCEPT ![r] =
                       [pc |-> "allocate", model |-> modelId, port |-> {},
                        pid |-> {}]]
            /\ regResult' = NoResult
    /\ UNCHANGED <<processes, usedPorts, children, killing, regNow>>
    /\ UNCHANGED outsideRegistry

\* startModel: `await getAvailablePort(preferred)` resolves
AllocatePort(r) ==
    LET port == getAvailablePort(preferredPort(startReq[r].model)) IN
    /\ startReq[r].pc = "allocate"
    /\ IF port = {}
       THEN /\ startReq' = [startReq EXCEPT ![r] = IdleRequest]
            /\ regResult' = result("start", startReq[r].model, FALSE, 500,
                                   "PortExhausted")
       ELSE /\ startReq' = [startReq EXCEPT ![r].pc = "spawn", ![r].port = port]
            /\ regResult' = NoResult
    /\ UNCHANGED <<processes, usedPorts, children, killing, regNow>>
    /\ UNCHANGED outsideRegistry

\* startModel: spawns the child and registers it as starting; the
\* readiness loop begins
SpawnRegister(r) ==
    LET pid == Len(children) + 1
        modelId == startReq[r].model
        tr == registerProcess(tracker, modelId, {pid}, startReq[r].port,
                              "server", regNow) IN
    /\ startReq[r].pc = "spawn"
    /\ children' = Append(children, [model |-> modelId,
                                     port |-> the(startReq[r].port),
                                     state |-> "spawned"])
    /\ processes' = tr.processes
    /\ usedPorts' = tr.usedPorts
    /\ startReq' = [startReq EXCEPT ![r].pc = "probe", ![r].pid = {pid}]
    /\ regResult' = registered(modelId, {pid}, startReq[r].port, "server")
    /\ UNCHANGED <<killing, regNow>>
    /\ UNCHANGED outsideRegistry

\* exit handler of a child: the record that points to it leaves the
\* running states
childExited(procs, pid, status) ==
    [m \in DOMAIN procs |->
        IF procs[m].pid = pid THEN [procs[m] EXCEPT !.status = status]
        ELSE procs[m]]

\* the engine binds its port; the bind fails, and the engine exits, when
\* another engine listens there
ChildListens(pid) ==
    /\ children[pid].state = "spawned"
    /\ IF isPortAvailable(children[pid].port)
       THEN /\ children' = [children EXCEPT ![pid].state = "listening"]
            /\ UNCHANGED processes
       ELSE /\ children' = [children EXCEPT ![pid].state = "exited"]
            /\ processes' = childExited(processes, pid, "error")
    /\ regResult' = NoResult
    /\ UNCHANGED <<usedPorts, startReq, killing, regNow>>
    /\ UNCHANGED outsideRegistry

\* the engine exits by itself
ChildExit(pid) == \E status \in {"stopped", "error"} :
    /\ Live(pid)
    /\ children' = [children EXCEPT ![pid].state = "exited"]
    /\ processes' = childExited(processes, pid, status)
    /\ regResult' = NoResult
    /\ UNCHANGED <<usedPorts, startReq, killing, regNow>>
    /\ UNCHANGED outsideRegistry

\* readiness loop: the health endpoint answers
Ready(r) ==
    /\ startReq[r].pc = "probe"
    /\ children[the(startReq[r].pid)].state = "listening"
    /\ processes' = updateProcessStatus(processes, startReq[r].model, "running")
    /\ startReq' = [startReq EXCEPT ![r] = IdleRequest]
    /\ regResult' = result("start", startReq[r].model, TRUE, 200, "")
    /\ UNCHANGED <<usedPorts, children, killing, regNow>>
    /\ UNCHANGED outsideRegistry

\* readiness loop: the startup timeout passes; kill child, unregister
StartupTimeout(r) ==
    LET tr == unregisterProcess(tracker, startReq[r].model) IN
    /\ startReq[r].pc = "probe"
    /\ children' = terminate(children, the(startReq[r].pid))
    /\ processes' = tr.processes
    /\ usedPorts' = tr.usedPorts
    /\ startReq' = [startReq EXCEPT ![r] = IdleRequest]
    /\ regResult' = result("start", startReq[r].model, FALSE, 500,
                           "StartupTimeout")
    /\ UNCHANGED <<killing, regNow>>
    /\ UNCHANGED outsideRegistry

\* POST /api/models/:id/stop: 404 without a descriptor, 400 when not
\* running, else stopModel sends the termination signal
stopRouteStatus(modelId) ==
    IF modelId \notin ConfiguredModels THEN 404
    ELSE IF ~isModelRunning(modelId) THEN 400
    ELSE 200

StopRoute(modelId) ==
    LET code == stopRouteStatus(modelId) IN
    /\ IF code # 200
       THEN /\ regResult' = result("stop", modelId, FALSE, code,
                   IF code = 404 THEN "Model not found"
                   ELSE "Model is not running")
            /\ UNCHANGED <<processes, killing>>
       ELSE /\ modelId \notin DOMAIN killing
            /\ processes' = updateProcessStatus(processes, modelId, "stopping")
            /\ killing' = Put(killing, modelId, processes[modelId].pid)
            /\ regResult' = NoResult
    /\ UNCHANGED <<usedPorts, children, startReq, regNow>>
    /\ UNCHANGED outsideRegistry

\* killProcess: the child has been joined; unregister
KillDone(modelId) ==
    LET tr == unregisterProcess(tracker, modelId) IN
    /\ modelId \in DOMAIN killing
    /\ children' = terminate(children, killing[modelId])
    /\ processes' = tr.processes
    /\ usedPorts' = tr.usedPorts
    /\ killing' = Remove(killing, modelId)
    /\ regResult' = result("stop", modelId, TRUE, 200, "")
    /\ UNCHANGED <<startReq, regNow>>
    /\ UNCHANGED outsideRegistry

\* cleanupZombies()
CleanupZombies ==
    LET tr == cleanupZombies(tracker) IN
    /\ processes' = tr.processes
    /\ usedPorts' = tr.usedPorts
    /\ regResult' = [result("cleanup", "", TRUE, 0, "")
                         EXCEPT !.removed = Cardinality(Zombies(tracker))]
    /\ UNCHANGED <<children, startReq, killing, regNow>>
    /\ UNCHANGED outsideRegistry

\* sendHeartbeat(modelId), also for a model without a record
Heartbeat(modelId) ==
    /\ processes' = sendHeartbeat(processes, modelId, regNow)
    /\ regResult' = result("heartbeat", modelId, modelId \in DOMAIN processes,
                           0, "")
    /\ UNCHANGED <<usedPorts, children, startReq, killing, regNow>>
    /\ UNCHANGED outsideRegistry

\* registerProcess called on the registry directly, with any arguments;
\* the subprocess handle, when given, is that of a newly spawned child,
\* which is kept track of once it is registered
RegisterCall == \E modelId \in {"", DefaultModel}, hasProcess \in BOOLEAN,
                   port \in {{}, {FirstPort}, {FirstPort + 1}},
                   execMode \in {"server", "cli", "daemon"} :
    LET pid == Len(children) + 1
        process == IF hasProcess THEN {pid} ELSE {}
        tr == registerProcess(tracker, modelId, process, port, execMode, regNow) IN
    /\ IF registerError(modelId, process, port, execMode) = ""
       THEN /\ Len(children) < MaxSpawns
            /\ children' = Append(children,
                   [model |-> modelId, port |-> the(port), state |-> "spawned"])
       ELSE UNCHANGED children
    /\ processes' = tr.processes
    /\ usedPorts' = tr.usedPorts
    /\ regResult' = registered(modelId, process, port, execMode)
    /\ UNCHANGED <<startReq, killing, regNow>>
    /\ UNCHANGED outsideRegistry

\* unregisterProcess(modelId) called directly
UnregisterCall(modelId) ==
    LET tr == unregisterProcess(tracker, modelId) IN
    /\ processes' = tr.processes
    /\ usedPorts' = tr.usedPorts
    /\ regResult' = result("unregister", modelId, modelId \in DOMAIN processes,
                           0, "")
    /\ UNCHANGED <<children, startReq, killing, regNow>>
    /\ UNCHANGED outsideRegistry

\* killProcess(modelId) called directly: terminates the child, unregisters
KillCall(modelId) ==
    LET tr == unregisterProcess(tracker, modelId) IN
    /\ children' = IF modelId \in DOMAIN processes
                   THEN terminate(children, processes[modelId].pid)
                   ELSE children
    /\ processes' = tr.processes
    /\ usedPorts' = tr.usedPorts
    /\ regResult' = result("kill", modelId, modelId \in DOMAIN processes, 0, "")
    /\ UNCHANGED <<startReq, killing, regNow>>
    /\ UNCHANGED outsideRegistry

\* updateProcessStatus(modelId, status) called directly
UpdateStatusCall(modelId) == \E status \in ProcessStatus :
    /\ processes' = updateProcessStatus(processes, modelId, status)
    /\ regResult' = result("update", modelId, modelId \in DOMAIN processes,
                           0, "")
    /\ UNCHANGED <<usedPorts, children, startReq, killing, regNow>>
    /\ UNCHANGED outsideRegistry

\* time passes
Tick ==
    /\ regNow < MaxTick
    /\ regNow' = regNow + 1
    /\ regResult' = NoResult
    /\ UNCHANGED <<processes, usedPorts, children, startReq, killing>>
    /\ UNCHANGED outsideRegistry

\* ---------------------------------------------------- engine parameters
\* What a job function hands to the engine, studied for one job row at a
\* time.  An optional value is a set: {} when the field is undefined, {v}
\* when it holds v.  Strength is kept in hundredths (60 = 0.6, 75 = 0.75).

\* `strength REAL DEFAULT 0.75`
DefaultStrength == 75

\* job types that have a job function
ProcessedTypes == {"generate", "edit", "variation"}

\* inputs of the study
StepsInputs == {{}, {4}, {20}}
ModelStepsDefaults == {{}, {9}}
QualityInputs == {{}, {"medium"}}
StrengthInputs == {{}, {60}}

\* nothing has been built for the engine yet
NotDispatched == [via |-> "none", body |-> [steps |-> {}, strength |-> {}],
                  argv |-> <<>>, recorded |-> {}]

\* a ?? b
orElse(a, b) == IF a # {} THEN a ELSE b

\* String(v) for the values that reach an argument vector
toArg(v) ==
    CASE v = 4 -> "4"
      [] v = 9 -> "9"
      [] v = 20 -> "20"
      [] v = 60 -> "0.6"
      [] v = 75 -> "0.75"

\* The `params` object literal of processGenerateJob, processEditJob and
\* processVariationJob, and the mode passed along with it.  None of the
\* three literals has a sample_steps or a strength key; only the generate
\* one copies quality.
processorParams(job) ==
    [mode |-> job.type,
     quality |-> IF job.type = "generate" THEN job.quality ELSE {},
     sample_steps |-> {},
     strength |-> {}]

\* The queue routes pass no strength to addToQueue, so the row keeps the
\* default of its column.
recordedStrength(job) == {DefaultStrength}

\* body of the engine request: `if (params.sample_steps !== undefined)
\* requestBody.steps = params.sample_steps`, and strength for mode
\* 'variation' only
requestBody(params) ==
    [steps |-> params.sample_steps,
     strength |-> IF params.mode = "variation" THEN params.strength ELSE {}]

\* quality -> steps mapping of the CLI handler
qualitySteps(quality) ==
    IF quality = {"medium"} THEN {20} ELSE {}

stepsFlag_both(params) ==
    (IF params.sample_steps = {} THEN <<>>
     ELSE <<"--steps", toArg(the(params.sample_steps))>>)
    \o (IF qualitySteps(params.quality) = {} THEN <<>>
        ELSE <<"--steps", toArg(the(qualitySteps(params.quality)))>>)

\* --steps from sample_steps when present, else from the quality mapping
\* when quality is set, else omitted
stepsFlag(params) ==
    LET steps == orElse(params.sample_steps, qualitySteps(params.quality)) IN
    IF steps = {} THEN <<>> ELSE <<"--steps", toArg(the(steps))>>

\* --strength only for variation, 0.75 when the job has none
strengthFlag(params) ==
    IF params.mode = "variation"
    THEN <<"--strength", toArg(the(orElse(params.strength, {DefaultStrength})))>>
    ELSE <<>>

\* descriptor of a cli-mode model
CliModelConfig == [command |-> "./bin/sd-cli", args |-> <<>>]

\* CLIHandler.buildCommand(modelConfig, params)
buildCommand(modelConfig, params) ==
    <<modelConfig.command>> \o modelConfig.args \o <<"-p", "test">>
        \o stepsFlag(params) \o strengthFlag(params)

\* a job function runs up to its call of generateImageDirect, which sends
\* the request
ProcessJob ==
    /\ dispatched = NotDispatched
    /\ dispatched' = [via |-> "http",
                      body |-> requestBody(processorParams(queuedJob)),
                      argv |-> <<>>,
                      recorded |-> recordedStrength(queuedJob)]
    /\ UNCHANGED <<queueVars, queuedJob, modelParams, registryVars, downloadVars,
                   apartVars>>

\* the CLI handler builds the argument vector for the row's parameters
BuildCommand ==
    /\ dispatched = NotDispatched
    /\ dispatched' = [via |-> "cli",
                      body |-> NotDispatched.body,
                      argv |-> buildCommand(CliModelConfig,
                                  [mode |-> queuedJob.type,
                                   quality |-> queuedJob.quality,
                                   sample_steps |-> queuedJob.sample_steps,
                                   strength |-> queuedJob.strength]),
                      recorded |-> recordedStrength(queuedJob)]
    /\ UNCHANGED <<queueVars, queuedJob, modelParams, registryVars, downloadVars,
                   apartVars>>

\* ------------------------------------------------------- model downloader
\* services/modelDownloader.js.  One download job is followed at a time: the
\* job of the latest downloadModel call, the task that runs it, the
\* destination files and the registry that serves them.  A byte is named by
\* its position in the remote file, so a file put together from the wrong
\* pieces differs from the remote one.
outsideDownload == <<queueVars, dispatchVars, registryVars, apartVars>>

\* the files of the download, in the order of the list
DownloadFiles == {1, 2}

Content(n) == [i \in 1..n |-> i]

FileContents == {Content(n) : n \in 1..MaxFileSize}

DOWNLOAD_STATUS ==
    {"pending", "downloading", "paused", "completed", "failed", "cancelled"}

\* no downloadModel call has been made: downloadJobs is empty
NoDownload ==
    [status |-> "none", error |-> "", files |-> <<>>, progress |-> 0,
     bytesDownloaded |-> 0, totalBytes |-> 0, abortController |-> "none"]

\* `downloadJobs.set(jobId, {...})` followed by `job.status = DOWNLOADING`
newDownload ==
    [status |-> "downloading", error |-> "", files |-> <<>>, progress |-> 0,
     bytesDownloaded |-> 0, totalBytes |-> 0, abortController |-> "none"]

\* `job.files.set(destPath, {size: 0, downloaded: 0, progress: 0, complete: false})`
newFile == [size |-> 0, downloaded |-> 0, complete |-> FALSE]

IdleTask ==
    [pc |-> "idle", file |-> 0, startPosition |-> 0, body |-> <<>>,
     totalBytes |-> 0, bytesDownloaded |-> 0, aborted |-> FALSE,
     listening |-> FALSE, settled |-> ""]

NoRange == {}

EmptyLog ==
    [attempt |-> 0, requests |-> <<>>, cancelAccepted |-> FALSE,
     fileError |-> FALSE, cancelledAt |-> [f \in DownloadFiles |-> 0]]

\* existsSync(path) and statSync(path).size
existsSync(f) == destFiles[f] # {}
fileSize(f) == IF existsSync(f) THEN Len(the(destFiles[f])) ELSE 0

RECURSIVE SumOver(_, _, _)
SumOver(files, field, S) ==
    IF S = {} THEN 0
    ELSE LET f == CHOOSE x \in S : TRUE
         IN files[f][field] + SumOver(files, field, S \ {f})

totalDownloaded(job) == SumOver(job.files, "downloaded", DOMAIN job.files)
totalSize(job) == SumOver(job.files, "size", DOMAIN job.files)

\* `totalSize > 0 ? (totalDownloaded / totalSize) * 100 : 0`, in whole percent
overallProgress(job) ==
    IF totalSize(job) > 0 THEN (totalDownloaded(job) * 100) \div totalSize(job)
    ELSE 0

\* the throttled branch of the 'data' handler
progressUpdate(job, f, size, downloaded) ==
    LET withFile == [job EXCEPT !.files =
                        Put(@, f, [size |-> size, downloaded |-> downloaded,
                                   complete |-> FALSE])]
    IN [withFile EXCEPT !.progress = overallProgress(withFile),
                        !.bytesDownloaded = totalDownloaded(withFile),
                        !.totalBytes = totalSize(withFile)]

\* the 'end' handler
fileComplete(job, f, size, downloaded) ==
    [job EXCEPT !.files = Put(@, f, [size |-> size, downloaded |-> downloaded,
                                     complete |-> TRUE])]

getDownloadStatus(job) ==
    [status |-> job.status,
     progress |-> job.progress,
     bytesDownloaded |-> totalDownloaded(job),
     totalBytes |-> totalSize(job),
     error |-> job.error]

\* the catch blocks of downloadModel: what the job is left with when the
\* task ends on an error with the given message
downloadModelCatch_noMessage(job, message) ==
    IF message = "Download cancelled"
    THEN [job EXCEPT !.status = "cancelled", !.error = "Download was cancelled"]
    ELSE [job EXCEPT !.status = "failed", !.error = ""]
downloadModelCatch(job, message) ==
    IF message = "Download cancelled"
    THEN [job EXCEPT !.status = "cancelled", !.error = "Download was cancelled"]
    ELSE [job EXCEPT !.status = "failed", !.error = message]

\* the promise of downloadModel settles; it rejects unless said otherwise
EndedTask ==
    [downloadTask EXCEPT !.pc = "done", !.listening = FALSE,
                         !.settled = "rejected"]

\* the task ends on an error thrown while a file is downloaded
TaskThrows(job, message) ==
    /\ downloadJob' = downloadModelCatch(job, message)
    /\ downloadTask' = EndedTask

\* the Range header downloadFile sends for a destination of the given size
rangeHeader(startPosition) ==
    IF startPosition > 0 THEN {startPosition} ELSE NoRange

\* one turn of the loop of downloadModel, up to `await fetch(url, options)`;
\* every entry of job.files has just been reset, so no file is skipped here
RequestFile(job, f) ==
    IF downloadTask.aborted
    THEN /\ TaskThrows(job, "Download cancelled")
         /\ downloadLog' = downloadLog
    ELSE /\ downloadJob' = job
         /\ downloadTask' = [downloadTask EXCEPT !.pc = "fetching",
                                !.file = f,
                                !.startPosition = fileSize(f),
                                !.body = <<>>,
                                !.totalBytes = 0,
                                !.bytesDownloaded = 0,
                                !.listening = FALSE]
         /\ downloadLog' = [downloadLog EXCEPT !.requests =
                               Append(@, [file |-> f,
                                          range |-> rangeHeader(fileSize(f))])]

\* downloadFile has returned for file f
FileDone(job, f) ==
    IF f + 1 \in DownloadFiles
    THEN RequestFile(job, f + 1)
    ELSE /\ downloadJob' = [job EXCEPT !.status = "completed", !.progress = 100]
         /\ downloadTask' = [EndedTask EXCEPT !.settled = "resolved"]
         /\ downloadLog' = downloadLog

\* downloadModel(repo, files), up to `await getHuggingFaceModelInfo(repo)`
StartDownload ==
    /\ downloadTask.pc \in {"idle", "done"}
    /\ downloadLog.attempt < MaxAttempts
    /\ downloadJob' = newDownload
    /\ downloadTask' = [IdleTask EXCEPT !.pc = "validating"]
    /\ downloadLog' = [downloadLog EXCEPT !.attempt = @ + 1,
                                          !.requests = <<>>,
                                          !.cancelAccepted = FALSE,
                                          !.fileError = FALSE,
                                          !.cancelledAt =
                                              IF downloadLog.cancelAccepted
                                              THEN @
                                              ELSE EmptyLog.cancelledAt]
    /\ UNCHANGED <<remoteFiles, destFiles>>
    /\ UNCHANGED outsideDownload

\* the repository answers: the file list is prepared, the abort controller
\* is created and the first file is requested
ValidationOk ==
    /\ downloadTask.pc = "validating"
    /\ RequestFile([downloadJob EXCEPT
                       !.files = [f \in DownloadFiles |-> newFile],
                       !.abortController = "task"], 1)
    /\ UNCHANGED <<remoteFiles, destFiles>>
    /\ UNCHANGED outsideDownload

ValidationFails ==
    /\ downloadTask.pc = "validating"
    /\ TaskThrows(downloadJob, "Failed to access repository")
    /\ UNCHANGED <<remoteFiles, destFiles, downloadLog>>
    /\ UNCHANGED outsideDownload

\* a file of the task failed on a request or on a write
FileFails(message) ==
    /\ TaskThrows(downloadJob, message)
    /\ downloadLog' = [downloadLog EXCEPT !.fileError = TRUE]
    /\ UNCHANGED <<remoteFiles, destFiles>>
    /\ UNCHANGED outsideDownload

\* fetch rejects, or the answer is neither a success, nor 206, nor 416
FetchFails ==
    /\ downloadTask.pc = "fetching"
    /\ FileFails("HTTP error! status: 500")

\* 416: the destination is taken as complete; statSync throws when a cancel
\* has deleted it in the meantime
RangeNotSatisfiable ==
    /\ downloadTask.pc = "fetching"
    /\ downloadTask.startPosition >= Len(remoteFiles[downloadTask.file])
    /\ IF existsSync(downloadTask.file)
       THEN /\ FileDone(downloadJob, downloadTask.file)
            /\ UNCHANGED <<remoteFiles, destFiles>>
            /\ UNCHANGED outsideDownload
       ELSE FileFails("ENOENT")

\* the write stream is opened and the body starts to flow
ResponseBody(status, body, contentLength) ==
    LET f == downloadTask.file
        append == downloadTask.startPosition > 0
    IN /\ destFiles' = [destFiles EXCEPT ![f] =
                           IF append /\ existsSync(f) THEN @ ELSE {<<>>}]
       /\ downloadTask' = [downloadTask EXCEPT
                              !.pc = "streaming",
                              !.body = body,
                              !.totalBytes = contentLength,
                              !.bytesDownloaded = downloadTask.startPosition,
                              !.listening = ~downloadTask.aborted]
       /\ UNCHANGED <<remoteFiles, downloadJob, downloadLog>>
       /\ UNCHANGED outsideDownload

\* 200 with the whole file, whether a range was asked for or not
FullContent ==
    /\ downloadTask.pc = "fetching"
    /\ ResponseBody(200, remoteFiles[downloadTask.file],
                    Len(remoteFiles[downloadTask.file]))

\* 206 with the bytes from the start position on; Content-Range carries the
\* size of the whole file
PartialContent ==
    LET content == remoteFiles[downloadTask.file]
    IN /\ downloadTask.pc = "fetching"
       /\ downloadTask.startPosition > 0
       /\ downloadTask.startPosition < Len(content)
       /\ ResponseBody(206,
                       SubSeq(content, downloadTask.startPosition + 1,
                              Len(content)),
                       Len(content))

\* stream 'data'; whether the throttled progress branch runs depends on the
\* clock
DataChunk ==
    LET f == downloadTask.file
        count == downloadTask.bytesDownloaded + 1
    IN /\ downloadTask.pc = "streaming"
       /\ downloadTask.body # <<>>
       /\ IF downloadTask.aborted
          THEN /\ TaskThrows(downloadJob, "Download cancelled")
               /\ UNCHANGED <<destFiles, downloadLog>>
          ELSE /\ destFiles' = [destFiles EXCEPT ![f] =
                                   {the(orElse(@, {<<>>})) \o
                                        <<Head(downloadTask.body)>>}]
               /\ downloadTask' = [downloadTask EXCEPT
                                      !.body = Tail(@),
                                      !.bytesDownloaded = count]
               /\ \E update \in BOOLEAN :
                      downloadJob' =
                          IF update
                          THEN progressUpdate(downloadJob, f,
                                              downloadTask.totalBytes, count)
                          ELSE downloadJob
               /\ downloadLog' = downloadLog
       /\ UNCHANGED remoteFiles
       /\ UNCHANGED outsideDownload

\* stream 'end'
StreamEnd ==
    /\ downloadTask.pc = "streaming"
    /\ downloadTask.body = <<>>
    /\ FileDone(fileComplete(downloadJob, downloadTask.file,
                             downloadTask.totalBytes,
                             downloadTask.bytesDownloaded),
                downloadTask.file)
    /\ UNCHANGED <<remoteFiles, destFiles>>
    /\ UNCHANGED outsideDownload

\* 'error' of the response stream or of the write stream
StreamError ==
    /\ downloadTask.pc = "streaming"
    /\ FileFails("write error")

\* `abortController.abort()`: the signal of the task is set only when the
\* job still holds the controller of the task; a listening transfer rejects
\* at once
Aborted(job) == job.abortController = "task"

Interrupted(job) == Aborted(job) /\ downloadTask.listening

AfterAbort(job) ==
    /\ downloadJob' = IF Interrupted(downloadJob)
                      THEN downloadModelCatch(job, "Download cancelled")
                      ELSE job
    /\ downloadTask' = IF Interrupted(downloadJob) THEN EndedTask
                       ELSE [downloadTask EXCEPT
                                !.aborted = @ \/ Aborted(downloadJob)]

\* the destinations cancelDownload deletes
PartialFiles(job) ==
    {f \in DOMAIN job.files : ~job.files[f].complete /\ existsSync(f)}

\* POST /api/models/download answers once `await downloadModel(...)` is over:
\* 200 with the download id when it resolved, 500 when it threw, 0 = not yet
postDownloadStatus(task) ==
    IF task.settled = "resolved" THEN 200
    ELSE IF task.settled = "rejected" THEN 500
    ELSE 0

\* cancelDownload(jobId); it throws, and changes nothing, for a completed job
cancelDownload ==
    /\ downloadJob.status \notin {"none", "completed"}
    /\ AfterAbort([downloadJob EXCEPT !.status = "cancelled"])
    /\ destFiles' = [f \in DownloadFiles |->
                        IF f \in PartialFiles(downloadJob) THEN {}
                        ELSE destFiles[f]]
    /\ downloadLog' =
           [downloadLog EXCEPT
               !.cancelAccepted = TRUE,
               !.cancelledAt = IF downloadTask.pc = "streaming"
                                THEN [f \in DownloadFiles |->
                                         IF f = downloadTask.file
                                         THEN fileSize(f) ELSE 0]
                                ELSE IF downloadLog.cancelAccepted THEN @
                                ELSE EmptyLog.cancelledAt]
    /\ UNCHANGED remoteFiles
    /\ UNCHANGED outsideDownload

\* pauseDownload(jobId); it throws unless the job is downloading
pauseDownload ==
    /\ downloadJob.status = "downloading"
    /\ AfterAbort([downloadJob EXCEPT !.status = "paused"])
    /\ UNCHANGED <<remoteFiles, destFiles, downloadLog>>
    /\ UNCHANGED outsideDownload

\* resumeDownload(jobId); it throws unless the job is paused, and it throws
\* after it has set the job to downloading: no task is started
resumeDownload ==
    /\ downloadJob.status = "paused"
    /\ downloadJob' =
           IF \A f \in DOMAIN downloadJob.files : downloadJob.files[f].complete
           THEN [downloadJob EXCEPT !.status = "completed"]
           ELSE [downloadJob EXCEPT !.status = "downloading",
                                    !.abortController = "resumed"]
    /\ UNCHANGED <<remoteFiles, destFiles, downloadTask, downloadLog>>
    /\ UNCHANGED outsideDownload

\* -------------------------------------------------------------- event bus
\* Section 4.6: topic-scoped publish/subscribe.  Every subscriber has a
\* bounded buffer that a delivery task of its own drains into the callback.
outsideBus ==
    <<queueVars, dispatchVars, registryVars, downloadVars, db, upLog,
      apiStore, exchange>>

Subscribers == {1, 2}

Topics == {"queue", "downloads"}

NoSubscriber ==
    [active |-> FALSE, topics |-> {}, buffer |-> <<>>, drops |-> 0,
     accepted |-> 0, delivered |-> <<>>]

EmptyBus ==
    [subscribers |-> [s \in Subscribers |-> NoSubscriber], published |-> <<>>]

\* subscribe(topics, callback); the callback's invocations are kept in
\* `delivered`, and the number of messages its buffers took in `accepted`,
\* for as long as the bus exists
subscribe(sub, topics) ==
    [sub EXCEPT !.active = TRUE, !.topics = topics, !.buffer = <<>>,
                !.drops = 0]

unsubscribe_bufferKept(sub) ==
    [sub EXCEPT !.active = FALSE, !.topics = {}]
\* unsubscribe: the entry leaves the table together with its buffer
unsubscribe(sub) ==
    [sub EXCEPT !.active = FALSE, !.topics = {}, !.buffer = <<>>]

offer_unbounded(sub, message) ==
    [sub EXCEPT !.buffer = Append(@, message), !.accepted = @ + 1]
\* a message is put into a subscriber's buffer, or dropped and counted when
\* the buffer is full
offer(sub, message) ==
    IF Len(sub.buffer) < BufferSize
    THEN [sub EXCEPT !.buffer = Append(@, message), !.accepted = @ + 1]
    ELSE [sub EXCEPT !.drops = @ + 1]

receives(sub, topic) == sub.active /\ topic \in sub.topics

Subscribe(s, topics) ==
    /\ ~eventBus.subscribers[s].active
    /\ eventBus' = [eventBus EXCEPT !.subscribers[s] = subscribe(@, topics)]
    /\ UNCHANGED outsideBus

Unsubscribe(s) ==
    /\ eventBus.subscribers[s].active
    /\ eventBus' = [eventBus EXCEPT !.subscribers[s] = unsubscribe(@)]
    /\ UNCHANGED outsideBus

\* publish(topic, message): one pass over the table, no waiting
Publish(topic) ==
    LET message == [topic |-> topic, seq |-> Len(eventBus.published) + 1]
    IN /\ Len(eventBus.published) < MaxPublished
       /\ eventBus' =
              [subscribers |->
                   [s \in Subscribers |->
                       IF receives(eventBus.subscribers[s], topic)
                       THEN offer(eventBus.subscribers[s], message)
                       ELSE eventBus.subscribers[s]],
               published |-> Append(eventBus.published, message)]
       /\ UNCHANGED outsideBus

\* the delivery task of subscriber s hands the oldest buffered message to
\* the callback
Deliver(s) ==
    LET sub == eventBus.subscribers[s]
    IN /\ sub.buffer # <<>>
       /\ eventBus' = [eventBus EXCEPT !.subscribers[s] =
                          [sub EXCEPT !.buffer = Tail(@),
                                      !.delivered = Append(@, Head(sub.buffer))]]
       /\ UNCHANGED outsideBus

\* -------------------------------------------------------- schema migrations
\* db/migrations: the up functions of migrations 002 to 005.  A table is its
\* set of column names and its rows, each row a function from the columns
\* to values; every value is written as text, NULL as "NULL".
outsideMigrate ==
    <<queueVars, dispatchVars, registryVars, downloadVars, eventBus,
      apiStore, exchange>>

\* columns of generations before migration 002
GenerationColumns ==
    {"id", "type", "model", "prompt", "negative_prompt", "size", "seed", "n",
     "quality", "style", "source_image_id", "response_format", "user_id",
     "created_at", "updated_at"}

\* columns of the queue table
QueueColumns ==
    {"id", "type", "model", "prompt", "negative_prompt", "size", "seed", "n",
     "quality", "style", "source_image_id", "input_image_path",
     "input_image_mime_type", "mask_image_path", "mask_image_mime_type",
     "status", "progress", "error", "generation_id", "created_at",
     "updated_at", "started_at", "completed_at"}

Versions == 2..5

\* the column definitions each migration adds, with their DEFAULT
columnsToAdd(version) ==
    CASE version = 2 ->
             <<[name |-> "status", default |-> "pending"],
               [name |-> "progress", default |-> "0"],
               [name |-> "error", default |-> "NULL"],
               [name |-> "started_at", default |-> "NULL"],
               [name |-> "completed_at", default |-> "NULL"],
               [name |-> "input_image_path", default |-> "NULL"],
               [name |-> "input_image_mime_type", default |-> "NULL"],
               [name |-> "mask_image_path", default |-> "NULL"],
               [name |-> "mask_image_mime_type", default |-> "NULL"]>>
      [] version = 3 ->
             <<[name |-> "strength", default |-> "0.75"]>>
      [] version = 4 ->
             <<[name |-> "model_loading_time_ms", default |-> "NULL"],
               [name |-> "generation_time_ms", default |-> "NULL"]>>
      [] version = 5 ->
             <<[name |-> "sample_steps", default |-> "NULL"],
               [name |-> "cfg_scale", default |-> "NULL"],
               [name |-> "sampling_method", default |-> "NULL"],
               [name |-> "clip_skip", default |-> "NULL"]>>

\* DEFAULT of a column of generations that an INSERT does not name
columnDefault(name) ==
    LET defs == UNION {{columnsToAdd(v)[i] : i \in DOMAIN columnsToAdd(v)} :
                           v \in Versions}
    IN IF \E d \in defs : d.name = name
       THEN (CHOOSE d \in defs : d.name = name).default
       ELSE "NULL"

\* ALTER TABLE generations ADD COLUMN: rows already there take the default
addColumn(table, column) ==
    [columns |-> table.columns \cup {column.name},
     rows |-> {[c \in table.columns \cup {column.name} |->
                   IF c \in table.columns THEN row[c] ELSE column.default] :
               row \in table.rows}]

\* the loop over the column definitions: a column is added unless PRAGMA
\* table_info, read before the loop, has it
RECURSIVE addColumns(_, _, _)
addColumns(table, columnNames, columns) ==
    IF columns = <<>>
    THEN table
    ELSE addColumns(IF Head(columns).name \in columnNames
                    THEN table
                    ELSE addColumn(table, Head(columns)),
                    columnNames, Tail(columns))

\* JavaScript's value || null and value || 0
Falsy == {"NULL", "", "0"}

orNull(value) == IF value \in Falsy THEN "NULL" ELSE value

orZero(value) == IF value \in Falsy THEN "0" ELSE value

\* UPDATE generations SET status, progress, error, started_at, completed_at
\* WHERE id = item.generation_id
updateGeneration(table, item) ==
    [table EXCEPT !.rows =
        {IF row["id"] = item["generation_id"]
         THEN [c \in table.columns |->
                  CASE c = "status" -> item["status"]
                    [] c = "progress" -> orZero(item["progress"])
                    [] c \in {"error", "started_at", "completed_at"} ->
                           orNull(item[c])
                    [] OTHER -> row[c]]
         ELSE row : row \in table.rows}]

\* the row INSERT INTO generations makes of a queue item
insertedRow(table, item) ==
    [c \in table.columns |->
        CASE c \in {"id", "type", "model", "prompt", "negative_prompt", "size",
                    "seed", "n", "quality", "style", "source_image_id",
                    "status", "created_at", "updated_at"} -> item[c]
          [] c = "response_format" -> "b64_json"
          [] c = "user_id" -> "NULL"
          [] c = "progress" -> orZero(item[c])
          [] c \in {"error", "input_image_path", "input_image_mime_type",
                    "mask_image_path", "mask_image_mime_type", "started_at",
                    "completed_at"} -> orNull(item[c])
          [] OTHER -> columnDefault(c)]

\* step 2 of migration 002, over the queue items in the order of the SELECT
RECURSIVE migrateItems(_, _)
migrateItems(table, queueItems) ==
    IF queueItems = <<>>
    THEN [table |-> table, error |-> ""]
    ELSE LET item == Head(queueItems)
         IN IF item["generation_id"] \notin Falsy
            THEN migrateItems(updateGeneration(table, item), Tail(queueItems))
            ELSE IF \E row \in table.rows : row["id"] = item["id"]
            THEN [table |-> table,
                  error |-> "UNIQUE constraint failed: generations.id"]
            ELSE migrateItems(
                     [table EXCEPT !.rows = @ \cup {insertedRow(table, item)}],
                     Tail(queueItems))

\* up of 002 merge_queue_into_generations; a statement that throws leaves
\* what the statements before it did
up002(database) ==
    LET added == addColumns(database.generations,
                            database.generations.columns, columnsToAdd(2))
    IN IF database.queue = {}
       THEN [db |-> [database EXCEPT !.generations = added],
             error |-> "no such table: queue"]
       ELSE LET migrated == migrateItems(added, the(database.queue))
            IN IF migrated.error # ""
               THEN [db |-> [database EXCEPT !.generations = migrated.table],
                     error |-> migrated.error]
               ELSE [db |-> [generations |-> migrated.table, queue |-> {}],
                     error |-> ""]

\* up of 003 add_strength_column, 004 timing columns, 005 steps/cfg columns
upAddColumns(version, database) ==
    [db |-> [database EXCEPT !.generations =
                addColumns(@, database.generations.columns,
                           columnsToAdd(version))],
     error |-> ""]

up(version, database) ==
    IF version = 2 THEN up002(database) ELSE upAddColumns(version, database)

NoUp == [applied |-> {}, last |-> 0, again |-> FALSE, error |-> ""]

\* a generations row and the queue items a database may hold before 002
GenerationRow ==
    [c \in GenerationColumns |->
        CASE c = "id" -> "g1"
          [] c \in {"type", "prompt"} -> "generate"
          [] c = "model" -> "sd-cpp-local"
          [] c = "response_format" -> "b64_json"
          [] OTHER -> "NULL"]

QueueItemIds == {"q1", "q2"}

QueueItems(generationIds) ==
    {[c \in QueueColumns |->
         CASE c = "id" -> id
           [] c = "generation_id" -> generation
           [] c = "status" -> status
           [] c = "progress" -> progress
           [] c \in {"type", "prompt"} -> "generate"
           [] c = "model" -> "sd-cpp-local"
           [] OTHER -> "NULL"] :
     id \in QueueItemIds, generation \in generationIds \cup {"NULL"},
     status \in {"pending", "completed"}, progress \in {"NULL", "0.5"}}

\* databases as migration 001 leaves them and the queue fills them
Databases ==
    {[generations |-> [columns |-> GenerationColumns, rows |-> rows],
      queue |-> {items}] :
     rows \in SUBSET {GenerationRow},
     items \in {<<>>} \cup {<<a>> : a \in QueueItems({"g1"})}
                 \cup {<<a, b>> : a \in QueueItems({"g1"}),
                                  b \in QueueItems({"g1"})}}

\* the migration runner calls up(db) of a version: in order for the first
\* time, or again for a version already applied
Up(version) ==
    LET outcome == up(version, db)
    IN /\ version = 2 \/ version - 1 \in upLog.applied
       /\ db' = outcome.db
       /\ upLog' = [applied |-> IF outcome.error = ""
                                THEN upLog.applied \cup {version}
                                ELSE upLog.applied,
                    last |-> version,
                    again |-> version \in upLog.applied,
                    error |-> outcome.error]
       /\ UNCHANGED outsideMigrate

\* ------------------------------------------------------------- HTTP routes
\* The app.get registrations under /api/queue and /api/models and the
\* catch-all, in the order of registration.  A path is the sequence of its
\* segments.  Express hands a request to the first registered route whose
\* method and pattern match.
outsideRoutes ==
    <<queueVars, dispatchVars, registryVars, downloadVars, eventBus, db, upLog>>

Params == {":id"}

getRoutes ==
    <<<<"api", "queue">>,
      <<"api", "queue", ":id">>,
      <<"api", "queue", "stats">>,
      <<"api", "models">>,
      <<"api", "models", ":id">>,
      <<"api", "models", ":id", "status">>,
      <<"api", "models", "running">>,
      <<"api", "models", "download", ":id">>,
      <<"api", "models", "downloaded">>,
      <<"*">>>>

\* a pattern matches a path segment by segment; a parameter takes any
\* segment, '*' any path
matches(pattern, path) ==
    \/ pattern = <<"*">>
    \/ /\ Len(pattern) = Len(path)
       /\ \A i \in DOMAIN pattern : pattern[i] \in Params \/ pattern[i] = path[i]

\* the route a GET request is handed to
firstMatch(path) ==
    CHOOSE r \in DOMAIN getRoutes :
        /\ matches(getRoutes[r], path)
        /\ \A q \in 1..(r - 1) : ~matches(getRoutes[q], path)

\* req.params.id
paramId(pattern, path) ==
    path[CHOOSE i \in DOMAIN pattern : pattern[i] \in Params]

NoExchange == [path |-> <<>>, route |-> 0, status |-> 0, body |-> ""]

\* the handler of each route: the status it answers and what it sends
handler(r, path, store) ==
    LET pattern == getRoutes[r]
        found(ids, body, missing) ==
            IF paramId(pattern, path) \in ids
            THEN [status |-> 200, body |-> body]
            ELSE [status |-> 404, body |-> missing]
    IN CASE pattern = <<"api", "queue">> ->
                [status |-> 200, body |-> "jobs and stats"]
         [] pattern = <<"api", "queue", ":id">> ->
                found(store.jobs, "job", "Job not found")
         [] pattern = <<"api", "queue", "stats">> ->
                [status |-> 200, body |-> "stats"]
         [] pattern = <<"api", "models">> ->
                [status |-> 200, body |-> "models"]
         [] pattern = <<"api", "models", ":id">> ->
                found(store.models, "model", "Model not found")
         [] pattern = <<"api", "models", ":id", "status">> ->
                found(store.models, "model status", "Model not found")
         [] pattern = <<"api", "models", "running">> ->
                [status |-> 200, body |-> "running models"]
         [] pattern = <<"api", "models", "download", ":id">> ->
                found(store.downloads, "download status", "Download not found")
         [] pattern = <<"api", "models", "downloaded">> ->
                [status |-> 200, body |-> "downloaded models"]
         [] OTHER -> [status |-> 200, body |-> "index.html"]

\* ids of the jobs, of the configured models and of the downloads
ApiStores ==
    [jobs : SUBSET {"job-1"}, models : SUBSET {"sd-cpp-local"},
     downloads : SUBSET {"download-1"}]

Segments ==
    {"queue", "models", "stats", "running", "downloaded", "download", "status",
     "job-1", "sd-cpp-local", "download-1"}

\* the paths of GET requests below /api/queue and /api/models
RequestPaths ==
    {<<"api", a>> : a \in {"queue", "models"}}
        \cup {<<"api", a, b>> : a \in {"queue", "models"}, b \in Segments}
        \cup {<<"api", "models", b, c>> : b \in Segments, c \in Segments}

\* GET path
Get(path) ==
    LET r == firstMatch(path)
        answer == handler(r, path, apiStore)
    IN /\ exchange' = [path |-> path, route |-> r, status |-> answer.status,
                       body |-> answer.body]
       /\ UNCHANGED apiStore
       /\ UNCHANGED outsideRoutes

\* ---------------------------------------------------------- specifications
\* no job row is under study
InitDispatchIdle ==
    /\ queuedJob = [type |-> "generate", sample_steps |-> {}, quality |-> {},
                    strength |-> {}]
    /\ modelParams = [sample_steps |-> {}]
    /\ dispatched = NotDispatched

InitQueue ==
    /\ jobs = <<>>
    /\ statusHist = <<>>
    /\ progHist = <<>>
    /\ now = 0
    /\ isProcessing = [p \in Loops |-> FALSE]
    /\ currentJob = [p \in Loops |-> NoJob]
    /\ pc = [p \in Loops |-> "idle"]
    /\ imagesLeft = [p \in Loops |-> 0]
    /\ engineCalled = {}
    /\ raised = <<>>
    /\ claimedBy = <<>>
    /\ savedImages = <<>>
    /\ response = NoResponse

\* no model has been started
InitRegistry ==
    /\ processes = NoProcesses
    /\ usedPorts = {}
    /\ children = <<>>
    /\ startReq = [r \in StartRequests |-> IdleRequest]
    /\ killing = NoProcesses
    /\ regNow = 0
    /\ regResult = NoResult

\* no download has been asked for
InitDownloadIdle ==
    /\ remoteFiles = [f \in DownloadFiles |-> Content(1)]
    /\ destFiles = [f \in DownloadFiles |-> {}]
    /\ downloadJob = NoDownload
    /\ downloadTask = IdleTask
    /\ downloadLog = EmptyLog

\* nobody has subscribed, nothing was published
InitApart ==
    /\ eventBus = EmptyBus
    /\ db = [generations |-> [columns |-> GenerationColumns, rows |-> {}],
             queue |-> {<<>>}]
    /\ upLog = NoUp
    /\ apiStore = [jobs |-> {}, models |-> {}, downloads |-> {}]
    /\ exchange = NoExchange

Init ==
    /\ InitQueue
    /\ InitDispatchIdle
    /\ InitRegistry
    /\ InitDownloadIdle
    /\ InitApart

Next ==
    \/ QueueGenerate
    \/ QueueEdit
    \/ QueueVariation
    \/ QueueUpscale
    \/ CancelRequest
    \/ processQueue(1)
    \/ EngineSuccess(1)
    \/ EngineFailure(1)
    \/ RecordCreated(1)
    \/ RecordFailure(1)
    \/ ImageSaved(1)
    \/ ImageFailure(1)

\* a single server process
Spec == Init /\ [][Next]_vars

NextS6 ==
    \/ QueueGenerate
    \/ \E p \in Loops :
        \/ SelectStep(p)
        \/ UpdateStep(p)
        \/ EngineSuccess(p)
        \/ EngineFailure(p)
        \/ RecordCreated(p)
        \/ RecordFailure(p)
        \/ ImageSaved(p)
        \/ ImageFailure(p)

\* two server processes on one store (scenario S6)
SpecS6 == Init /\ [][NextS6]_vars

InitDispatch ==
    /\ InitQueue
    /\ queuedJob \in [type : ProcessedTypes, sample_steps : StepsInputs,
                      quality : QualityInputs, strength : StrengthInputs]
    /\ modelParams \in [sample_steps : ModelStepsDefaults]
    /\ dispatched = NotDispatched
    /\ InitRegistry
    /\ InitDownloadIdle
    /\ InitApart

NextDispatch ==
    \/ ProcessJob
    \/ BuildCommand

\* one job row, one model, and what is built for the engine from them
SpecDispatch == InitDispatch /\ [][NextDispatch]_vars

InitManager ==
    /\ InitQueue
    /\ InitDispatchIdle
    /\ InitRegistry
    /\ InitDownloadIdle
    /\ InitApart

NextManager ==
    \/ \E modelId \in RouteModels : StartRoute(modelId)
    \/ \E r \in StartRequests : AllocatePort(r)
    \/ \E r \in StartRequests : SpawnRegister(r)
    \/ \E pid \in DOMAIN children : ChildListens(pid)
    \/ \E pid \in DOMAIN children : ChildExit(pid)
    \/ \E r \in StartRequests : Ready(r)
    \/ \E r \in StartRequests : StartupTimeout(r)
    \/ \E modelId \in RouteModels : StopRoute(modelId)
    \/ \E modelId \in ConfiguredModels : KillDone(modelId)
    \/ CleanupZombies

\* the model manager, its routes and the process registry
SpecManager == InitManager /\ [][NextManager]_vars

NextRegistry ==
    \/ RegisterCall
    \/ UnregisterCall(DefaultModel)
    \/ KillCall(DefaultModel)
    \/ UpdateStatusCall(DefaultModel)
    \/ Heartbeat(DefaultModel)
    \/ CleanupZombies
    \/ \E pid \in DOMAIN children : ChildExit(pid)
    \/ Tick

\* the process registry called directly, as its tests call it
SpecRegistry == InitManager /\ [][NextRegistry]_vars

InitDownload ==
    /\ InitQueue
    /\ InitDispatchIdle
    /\ InitRegistry
    /\ remoteFiles \in [DownloadFiles -> FileContents]
    /\ destFiles = [f \in DownloadFiles |-> {}]
    /\ downloadJob = NoDownload
    /\ downloadTask = IdleTask
    /\ downloadLog = EmptyLog
    /\ InitApart

NextDownload ==
    \/ StartDownload
    \/ ValidationOk
    \/ ValidationFails
    \/ FetchFails
    \/ RangeNotSatisfiable
    \/ FullContent
    \/ PartialContent
    \/ DataChunk
    \/ StreamEnd
    \/ StreamError
    \/ cancelDownload
    \/ pauseDownload
    \/ resumeDownload

\* one download at a time, restarted after it has ended
SpecDownload == InitDownload /\ [][NextDownload]_vars

\* POST /api/queue/generate with no model field
QueueGenerateDefault == \E d \in 0..1 :
    addToQueue("generate", requestModel(NoModel), d)

NextDrain ==
    \/ QueueGenerateDefault
    \/ CancelRequest
    \/ processQueue(1)
    \/ EngineSuccess(1)
    \/ EngineFailure(1)
    \/ RecordCreated(1)
    \/ RecordFailure(1)
    \/ ImageSaved(1)
    \/ ImageFailure(1)

\* setInterval(processQueue, pollInterval) keeps firing, and every awaited
\* call (the engine, createGeneration, createGeneratedImage) settles
DrainFairness ==
    /\ WF_vars(processQueue(1))
    /\ WF_vars(EngineSuccess(1) \/ EngineFailure(1))
    /\ WF_vars(RecordCreated(1) \/ RecordFailure(1))
    /\ WF_vars(ImageSaved(1) \/ ImageFailure(1))

\* a single server process whose poll timer keeps firing
SpecDrain == Init /\ [][NextDrain]_vars /\ DrainFairness

NextBus ==
    \/ \E s \in Subscribers, topics \in SUBSET Topics \ {{}} :
           Subscribe(s, topics)
    \/ \E s \in Subscribers : Unsubscribe(s)
    \/ \E topic \in Topics : Publish(topic)
    \/ \E s \in Subscribers : Deliver(s)

\* the event bus with its subscribers and publishers
SpecBus == Init /\ [][NextBus]_vars

\* the tables a database can hold: queue items refer to generations that
\* exist, and no two rows of a table share an id
InitMigrate ==
    /\ InitQueue
    /\ InitDispatchIdle
    /\ InitRegistry
    /\ InitDownloadIdle
    /\ eventBus = EmptyBus
    /\ db \in Databases
    /\ LET items == the(db.queue)
       IN /\ \A i \in DOMAIN items :
                 \/ items[i]["generation_id"] = "NULL"
                 \/ \E row \in db.generations.rows :
                        row["id"] = items[i]["generation_id"]
          /\ \A i, k \in DOMAIN items : i # k => items[i]["id"] # items[k]["id"]
    /\ upLog = NoUp
    /\ apiStore = [jobs |-> {}, models |-> {}, downloads |-> {}]
    /\ exchange = NoExchange

NextMigrate == \E version \in Versions : Up(version)

\* the migrations applied to a database, any of them more than once
SpecMigrate == InitMigrate /\ [][NextMigrate]_vars

InitRoutes ==
    /\ InitQueue
    /\ InitDispatchIdle
    /\ InitRegistry
    /\ InitDownloadIdle
    /\ eventBus = EmptyBus
    /\ db = [generations |-> [columns |-> GenerationColumns, rows |-> {}],
             queue |-> {<<>>}]
    /\ upLog = NoUp
    /\ apiStore \in ApiStores
    /\ exchange = NoExchange

NextRoutes == \E path \in RequestPaths : Get(path)

\* the server answering GET requests
SpecRoutes == InitRoutes /\ [][NextRoutes]_vars

TypeOK ==
    /\ Len(jobs) <= MaxJobs
    /\ \A j \in JobIds : jobs[j].type \in JobTypes
    /\ \A p \in Loops : pc[p] \in {"idle", "claim", "engine", "record", "images"}
    /\ \A p \in Loops : currentJob[p] \in JobIds \cup {NoJob}
    /\ downloadJob.status \in DOWNLOAD_STATUS \cup {"none"}

\* ------------------------------------------------------------------ claims
IsPrefix(s, t) == Len(s) <= Len(t) /\ SubSeq(t, 1, Len(s)) = s

NonDecreasing(s) == \A i \in 1..(Len(s) - 1) : s[i] <= s[i + 1]

Lifecycles ==
    { <<"pending", "processing", "completed">>,
      <<"pending", "processing", "failed">>,
      <<"pending", "cancelled">> }

ProcessingJobs == {j \in JobIds : Status(j) = "processing"}

\* job j goes from pending to processing in this step
ClaimedNow(j) ==
    /\ Status(j) = "pending"
    /\ Len(statusHist'[j]) > Len(statusHist[j])
    /\ statusHist'[j][Len(statusHist[j]) + 1] = "processing"

\* C1: the statuses a job takes, in order, are a prefix of
\* pending -> processing -> completed, pending -> processing -> failed or
\* pending -> cancelled.
C1_StatusLifecycle ==
    \A j \in JobIds :
        /\ statusHist[j] # <<>>
        /\ \E t \in Lifecycles : IsPrefix(statusHist[j], t)

\* one job ran to completion and another was cancelled while pending
C1_Witness ==
    \E j, k \in JobIds :
        /\ statusHist[j] = <<"pending", "processing", "completed">>
        /\ statusHist[k] = <<"pending", "cancelled">>

\* C2: at most one job is processing in a single instance, and a job is
\* claimed only by a poll that finds the in-flight flag clear.
C2_AtMostOneProcessing ==
    /\ [](Cardinality(ProcessingJobs) <= 1)
    /\ [][(\E j \in JobIds : claimedBy'[j] # claimedBy[j]) => ~isProcessing[1]]_vars

\* a job is in flight while another one is waiting
C2_Witness ==
    \E j, k \in JobIds :
        /\ isProcessing[1] /\ currentJob[1] = j
        /\ Status(j) = "processing"
        /\ Status(k) = "pending"

\* C3: with two loops on one store every job is selected by exactly one
\* loop, and once both loops have drained the queue no job is processing.
C3_ClaimedByExactlyOneLoop ==
    /\ \A j \in JobIds : Cardinality(claimedBy[j]) <= 1
    /\ (PendingJobs = {} /\ \A p \in Loops : pc[p] = "idle") =>
           \A j \in JobIds : Status(j) # "processing" /\ Cardinality(claimedBy[j]) = 1

\* C4: a job whose processing raised an error is failed, carries the error
\* message and no longer occupies the processor: the flag is clear or a
\* later job holds it.
C4_ErrorMarksFailed ==
    \A j \in JobIds : raised[j] # "" =>
        /\ Status(j) = "failed"
        /\ jobs[j].error = raised[j]
        /\ currentJob[1] # j
        /\ isProcessing[1] => (currentJob[1] \in JobIds /\ raised[currentJob[1]] = "")

\* after a job failed past its engine call, the next job has been claimed
C4_Witness ==
    \E j, k \in JobIds :
        /\ raised[j] \in {"RecordError", "ImageError"}
        /\ Status(j) = "failed"
        /\ Status(k) = "processing"
        /\ currentJob[1] = k

C6_FullProgressSequence ==
    \A j \in JobIds :
        Status(j) = "completed" => progHist[j] = <<1, 3, 7, 9, 10>>

\* C7: when a job goes from pending to processing, no pending job has an
\* earlier created_at.
C7_ClaimOrderFIFO ==
    [][\A j \in JobIds : ClaimedNow(j) =>
          \A k \in PendingJobs : jobs[j].created_at <= jobs[k].created_at]_vars

\* the older of two jobs has been claimed while the younger one waits
C7_Witness ==
    \E j, k \in JobIds :
        /\ jobs[j].created_at < jobs[k].created_at
        /\ claimedBy[j] # {}
        /\ Status(k) = "pending"

\* C8: a cancel request cancels a pending job and answers 200; for any other
\* job it changes no status and answers 404; it never touches the
\* processor; a cancelled job stays cancelled and is never claimed.
C8_CancelOnlyPending ==
    [][ /\ response' # NoResponse =>
            LET id == response'.id IN
            /\ UNCHANGED <<isProcessing, currentJob, pc, imagesLeft, claimedBy>>
            /\ (id \in JobIds /\ Status(id) = "pending") =>
                   /\ statusHist' = [statusHist EXCEPT ![id] = Append(@, "cancelled")]
                   /\ response'.code = 200
            /\ ~(id \in JobIds /\ Status(id) = "pending") =>
                   /\ statusHist' = statusHist
                   /\ response'.code = 404
        /\ \A j \in JobIds : Status(j) = "cancelled" =>
               statusHist'[j] = statusHist[j] /\ claimedBy'[j] = claimedBy[j]
      ]_vars

\* a cancel of the job in flight was refused, after another job had been
\* cancelled while pending
C8_Witness ==
    \E k \in JobIds :
        /\ response.code = 404
        /\ response.id \in JobIds
        /\ Status(response.id) = "processing"
        /\ currentJob[1] = response.id
        /\ statusHist[k] = <<"pending", "cancelled">>

\* C9: a claimed job whose model id has no descriptor is failed with
\* UnknownModel and no engine request is made for it.
C9_UnknownModelFails ==
    \A j \in JobIds : jobs[j].model \notin KnownModels =>
        /\ j \notin engineCalled
        /\ claimedBy[j] # {} => (Status(j) = "failed" /\ jobs[j].error = "UnknownModel")

\* C10: an upscale job is dispatched to the engine like the other types and
\* is never failed because of its type.
C10_UpscaleDispatched ==
    \A j \in JobIds : (jobs[j].type = "upscale" /\ claimedBy[j] # {}) =>
        /\ j \in engineCalled
        /\ jobs[j].error # unknownTypeMessage("upscale")

\* -------------------------------------------------- claims on parameters
\* occurrences of flag in an argument vector
FlagCount(argv, flag) == Cardinality({i \in DOMAIN argv : argv[i] = flag})

\* the flag occurs and is followed by value
FlagValue(argv, flag, value) ==
    \E i \in DOMAIN argv : argv[i] = flag /\ i < Len(argv) /\ argv[i + 1] = value

\* C11: the request dispatched to the engine carries steps = the job's
\* sample_steps when present, else the model's default when present, else
\* no steps field (so 20 never appears unless it was given).
C11_StepsFallback ==
    dispatched.via = "http" =>
        dispatched.body.steps =
            IF queuedJob.sample_steps # {} THEN queuedJob.sample_steps
            ELSE modelParams.sample_steps

\* C12: a variation job submitted without a strength has 0.75 recorded and
\* forwarded (body strength 0.75, argv --strength 0.75); for a job of any
\* other type no strength is forwarded, supplied or not.
C12_VariationStrength ==
    /\ (dispatched.via # "none" /\ queuedJob.type = "variation"
            /\ queuedJob.strength = {}) =>
           /\ dispatched.recorded = {75}
           /\ dispatched.via = "http" => dispatched.body.strength = {75}
           /\ dispatched.via = "cli" =>
                  FlagValue(dispatched.argv, "--strength", "0.75")
    /\ (dispatched.via # "none" /\ queuedJob.type # "variation") =>
           /\ dispatched.body.strength = {}
           /\ FlagCount(dispatched.argv, "--strength") = 0

\* C13: the argument vector holds at most one --steps flag: sample_steps
\* when present (even if quality is set), else the quality mapping when
\* quality is set, and no flag when neither is given.
C13_SingleStepsFlag ==
    dispatched.via = "cli" =>
        LET argv == dispatched.argv IN
        /\ FlagCount(argv, "--steps") <= 1
        /\ queuedJob.sample_steps = {4} => FlagValue(argv, "--steps", "4")
        /\ queuedJob.sample_steps = {20} => FlagValue(argv, "--steps", "20")
        /\ (queuedJob.sample_steps = {} /\ queuedJob.quality = {"medium"}) =>
               FlagValue(argv, "--steps", "20")
        /\ (queuedJob.sample_steps = {} /\ queuedJob.quality = {}) =>
               FlagCount(argv, "--steps") = 0

\* an argument vector built for a row that has both sample_steps and quality
C13_Witness ==
    /\ dispatched.via = "cli"
    /\ queuedJob.sample_steps = {4}
    /\ queuedJob.quality = {"medium"}
    /\ FlagValue(dispatched.argv, "--steps", "4")

\* ---------------------------------------------- claims on the registry
\* ports held by the records of the map
RecordPorts == {processes[m].port : m \in DOMAIN processes}

\* C14: after any sequence of register, unregister, kill and cleanup
\* calls, the used-port set is exactly the set of ports of the records in
\* the map.
C14_UsedPortsAreRecordPorts == usedPorts = RecordPorts

\* C15: a model id has at most one record (the map is keyed by model id)
\* and no port appears in more than one record, also while start requests
\* for different models that prefer the same port interleave.
C15_NoSharedPort ==
    \A m1, m2 \in DOMAIN processes :
        processes[m1].port = processes[m2].port => m1 = m2

\* C16: when a registration replaces the record of a model id, the child
\* of the replaced record has already been terminated; hence every live
\* child spawned by the manager has a record pointing to it.
C16_ReplacedChildTerminated ==
    [][ /\ \A m \in DOMAIN processes \cap DOMAIN processes' :
               processes'[m].pid # processes[m].pid => ~Live(processes[m].pid)
        /\ \A pid \in DOMAIN children' :
               children'[pid].state # "exited" =>
                   \E m \in DOMAIN processes' : processes'[m].pid = pid
      ]_vars

\* C17: a start on a model whose record is starting or running is refused
\* with 409 (AlreadyRunning), a start on an unknown model id with 404
\* (NotFound); a refused start spawns no child and leaves the registry, the
\* used-port set and the start requests as they were.
C17_StartRefused ==
    [][ /\ \A r \in StartRequests :
               (startReq[r].pc = "idle" /\ startReq'[r].pc = "allocate") =>
                   LET m == startReq'[r].model IN
                   /\ m \in ConfiguredModels
                   /\ ~(m \in DOMAIN processes
                          /\ processes[m].status \in {"starting", "running"})
        /\ (regResult'.op = "start" /\ regResult'.code \in {404, 409}) =>
               /\ UNCHANGED <<processes, usedPorts, children, startReq>>
               /\ regResult'.code = 404 <=> regResult'.model \notin ConfiguredModels
               /\ regResult'.code = 409 => regResult'.model \in DOMAIN processes
      ]_vars

\* a start was refused for a model whose engine is running
C17_Witness ==
    /\ regResult.op = "start"
    /\ regResult.code = 409
    /\ regResult.model \in DOMAIN processes
    /\ processes[regResult.model].status = "running"
    /\ children[processes[regResult.model].pid].state = "listening"

\* the engine of the model has become ready
EngineReady(modelId) ==
    /\ modelId \in DOMAIN processes
    /\ processes[modelId].status = "running"

\* C18: when the engine of a job's model never becomes ready, the start
\* ends with StartupTimeout (child killed, record gone, port released) and
\* the job that requested it ends failed with StartupTimeout: no job goes
\* on to the engine request, or ends any other way, without a ready engine.
C18_StartupTimeoutFailsJob ==
    /\ (regResult.op = "start" /\ regResult.error = "StartupTimeout") =>
           regResult.model \notin DOMAIN processes
    /\ \A j \in JobIds :
           (Status(j) \notin {"pending", "cancelled"}
                /\ ~EngineReady(jobs[j].model)) =>
               /\ j \notin engineCalled
               /\ Status(j) \in {"processing", "failed"}
               /\ Status(j) = "failed" => jobs[j].error = "StartupTimeout"

\* C19: a heartbeat on an existing record stamps last_heartbeat_at, turns
\* starting into running and leaves any other status as it is; on an
\* absent model id it returns false and creates no record.
C19_Heartbeat ==
    [][ regResult'.op = "heartbeat" =>
            LET m == regResult'.model IN
            IF m \in DOMAIN processes
            THEN /\ regResult'.ok
                 /\ DOMAIN processes' = DOMAIN processes
                 /\ processes'[m].lastHeartbeat = regNow
                 /\ processes'[m].status =
                        IF processes[m].status = "starting" THEN "running"
                        ELSE processes[m].status
                 /\ processes'[m].pid = processes[m].pid
                 /\ processes'[m].port = processes[m].port
                 /\ usedPorts' = usedPorts
            ELSE /\ ~regResult'.ok
                 /\ processes' = processes
                 /\ usedPorts' = usedPorts
      ]_vars

\* a heartbeat later than the registration, on a record that is stopping
C19_Witness ==
    /\ regResult.op = "heartbeat"
    /\ regResult.ok
    /\ regNow > 0
    /\ processes[regResult.model].status = "stopping"
    /\ processes[regResult.model].lastHeartbeat = regNow

\* C20: register throws when the model id, the subprocess or the port is
\* missing or the exec mode is neither server nor cli, and then leaves the
\* map and the used-port set as they were; otherwise the record it yields
\* is in status starting.
C20_RegisterValidation ==
    [][ regResult'.op = "register" =>
            LET a == regResult'.args
                m == regResult'.model
                bad == \/ m = ""
                       \/ a.process = {}
                       \/ a.port = {}
                       \/ a.execMode \notin {"server", "cli"}
            IN /\ bad => /\ ~regResult'.ok
                         /\ regResult'.error # ""
                         /\ processes' = processes
                         /\ usedPorts' = usedPorts
               /\ ~bad => /\ regResult'.ok
                          /\ m \in DOMAIN processes'
                          /\ processes'[m].status = "starting"
                          /\ processes'[m].port \in a.port
                          /\ processes'[m].pid \in a.process
      ]_vars

\* a register refused while the map holds a record
C20_Witness ==
    /\ regResult.op = "register"
    /\ ~regResult.ok
    /\ regResult.error = "port is required"
    /\ DefaultModel \in DOMAIN processes
    /\ usedPorts # {}

\* C21: unregister on an existing record returns true, removes the record
\* and takes its port out of the used-port set; on an absent model id it
\* returns false and changes nothing, so a second unregister ends in the
\* state of the first.
C21_Unregister ==
    [][ regResult'.op = "unregister" =>
            LET m == regResult'.model IN
            IF m \in DOMAIN processes
            THEN /\ regResult'.ok
                 /\ DOMAIN processes' = DOMAIN processes \ {m}
                 /\ \A x \in DOMAIN processes' : processes'[x] = processes[x]
                 /\ usedPorts' = usedPorts \ {processes[m].port}
                 /\ processes[m].port \notin usedPorts'
            ELSE /\ ~regResult'.ok
                 /\ processes' = processes
                 /\ usedPorts' = usedPorts
      ]_vars

\* an unregister removed the record of a child that was registered
C21_Witness ==
    /\ regResult.op = "unregister"
    /\ regResult.ok
    /\ regResult.model \notin DOMAIN processes
    /\ usedPorts = {}
    /\ children # <<>>

\* C22: a kill that returns true has signalled the child, leaves no record
\* for the model id and has taken its port out of the used-port set; a
\* kill on an absent model id returns false and changes nothing.
C22_Kill ==
    [][ regResult'.op = "kill" =>
            LET m == regResult'.model IN
            IF m \in DOMAIN processes
            THEN /\ regResult'.ok
                 /\ children'[processes[m].pid].state = "exited"
                 /\ m \notin DOMAIN processes'
                 /\ processes[m].port \notin usedPorts'
            ELSE /\ ~regResult'.ok
                 /\ UNCHANGED <<processes, usedPorts, children>>
      ]_vars

\* a kill returned true for a child that was alive
C22_Witness ==
    /\ regResult.op = "kill"
    /\ regResult.ok
    /\ regResult.model \notin DOMAIN processes
    /\ \E pid \in DOMAIN children :
           children[pid].model = regResult.model /\ ~Live(pid)

StatusRank(status) ==
    CASE status = "starting" -> 1
      [] status = "running" -> 2
      [] status = "stopping" -> 3
      [] status = "stopped" -> 4
      [] status = "error" -> 5

\* C24: the status of a record moves only forward on starting -> running ->
\* stopping -> stopped, or to error; a stopped or error record never goes
\* back to starting or running; is_running is true exactly for a record
\* whose status is neither stopped nor error.
C24_StatusChain ==
    [][ /\ \A m \in DOMAIN processes \cap DOMAIN processes' :
               processes'[m].pid = processes[m].pid =>
                   \/ processes'[m].status = processes[m].status
                   \/ processes'[m].status = "error"
                   \/ /\ processes[m].status # "error"
                      /\ StatusRank(processes[m].status)
                             < StatusRank(processes'[m].status)
        /\ \A m \in ConfiguredModels :
               isModelRunning(m) <=>
                   /\ m \in DOMAIN processes
                   /\ processes[m].status \notin {"stopped", "error"}
      ]_vars

\* the job under study is the same before and after the step
SameDownload == downloadLog'.attempt = downloadLog.attempt

TerminalStatuses == {"completed", "failed", "cancelled"}

\* C25: once a download has status completed, failed or cancelled, no call
\* of cancelDownload, pauseDownload or resumeDownload and no step of its task
\* changes the status.
C25_TerminalStatuses ==
    [][(downloadJob.status \in TerminalStatuses /\ SameDownload)
           => downloadJob'.status = downloadJob.status]_vars

DiskSize(files, f) == IF files[f] = {} THEN 0 ELSE Len(the(files[f]))

\* C26: after cancelDownload has been accepted, wherever the task was, the
\* status is cancelled in every later state, no file is requested any more
\* and no byte is written any more for that download.
C26_CancelStops ==
    [][(downloadLog.cancelAccepted /\ SameDownload)
           => /\ downloadJob'.status = "cancelled"
              /\ downloadLog'.requests = downloadLog.requests
              /\ \A f \in DownloadFiles :
                     DiskSize(destFiles', f) <= DiskSize(destFiles, f)]_vars

C28_Aggregates ==
    downloadJob.status # "none" =>
        LET view == getDownloadStatus(downloadJob)
        IN /\ view.bytesDownloaded = totalDownloaded(downloadJob)
           /\ view.totalBytes = totalSize(downloadJob)
           /\ view.progress =
                  IF view.totalBytes > 0
                  THEN (view.bytesDownloaded * 100) \div view.totalBytes
                  ELSE 0

\* the download has run to its end
DownloadFinished ==
    downloadTask.pc = "done" /\ downloadJob.status = "completed"

Requests == {downloadLog.requests[i] : i \in 1..Len(downloadLog.requests)}

\* C29: a download that found a partial destination, and asked for the rest
\* with a Range header, leaves a file equal byte for byte to the remote one,
\* whether the answer was 206, 200 or 416.
C29_ResumedFileEqualsRemote ==
    DownloadFinished =>
        \A r \in Requests :
            r.range # NoRange => destFiles[r.file] = {remoteFiles[r.file]}

\* C30: a download started after a cancel that had interrupted the transfer
\* of a file asks for that file with Range: bytes=<n>-, n being the bytes
\* that were on disk at the cancel; the file ends with the remote size.
C30_RestartAfterCancel ==
    ~downloadLog.cancelAccepted =>
        \A r \in Requests :
            downloadLog.cancelledAt[r.file] > 0 =>
                /\ r.range = {downloadLog.cancelledAt[r.file]}
                /\ DownloadFinished =>
                       DiskSize(destFiles, r.file) = Len(remoteFiles[r.file])

\* resumeDownload has put the job back to downloading
Resumed == downloadJob.abortController = "resumed"

\* C31: a paused download with incomplete files that is resumed is
\* downloading again and, unless it is cancelled or a request or write fails,
\* goes on to completed: it does not end cancelled or failed on its own.
C31_ResumeCompletes ==
    [][(/\ Resumed
        /\ SameDownload
        /\ ~downloadLog'.cancelAccepted
        /\ ~downloadLog'.fileError)
           => downloadJob'.status \in {"downloading", "paused", "completed"}]_vars

\* C35: after pauseDownload on a downloading download the status stays
\* paused and no byte is written until resumeDownload or cancelDownload is
\* called: no step of its task changes the status or writes a byte (a step in
\* which the repository or a request fails is left aside).
C35_PauseHolds ==
    [][(/\ downloadJob.status = "paused"
        /\ SameDownload
        /\ downloadTask' # downloadTask
        /\ downloadJob'.status # "failed"
        /\ ~downloadLog'.cancelAccepted)
           => /\ downloadJob'.status = "paused"
              /\ \A f \in DownloadFiles :
                     DiskSize(destFiles', f) <= DiskSize(destFiles, f)]_vars

\* C38: a download that has run to its end and is completed has every file
\* marked complete, with as many bytes downloaded as the file is large, files
\* skipped on 416 included.
C38_CompletedFilesComplete ==
    DownloadFinished =>
        \A f \in DOMAIN downloadJob.files :
            /\ downloadJob.files[f].complete
            /\ downloadJob.files[f].downloaded = downloadJob.files[f].size

\* C37: when POST /api/models/download hands the download id to the caller,
\* the download is in a status that is not terminal, so that the caller can
\* still see it downloading and cancel it.
C37_StartAnswersWhileRunning ==
    [][(postDownloadStatus(downloadTask') = 200
        /\ postDownloadStatus(downloadTask) # 200)
           => downloadJob'.status \notin TerminalStatuses]_vars

\* C36: the image records of a job are written while its latest progress is
\* 0.7, before 0.9 is published, and a job is set to completed only after
\* 0.9: whoever sees 0.9 or completed finds every image stored.
C36_ImagesBeforeNinety ==
    [][\A j \in JobIds :
           /\ savedImages'[j] > savedImages[j] => Progress(j) = 7
           /\ (Status(j) # "completed" /\ Last(statusHist'[j]) = "completed")
                  => 9 \in {progHist'[j][i] : i \in 1..Len(progHist'[j])}]_vars

\* C39: with the poll timer firing and every awaited call settling, every
\* job that is pending or processing ends completed, failed or cancelled: no
\* job waits or runs forever, whatever happened to the jobs before it.
C39_QueueDrains ==
    \A j \in 1..MaxJobs :
        (j \in JobIds /\ Status(j) \in {"pending", "processing"})
            ~> (j \in JobIds /\ Status(j) \in {"completed", "failed", "cancelled"})

\* the first job failed and the second one, enqueued behind it, completed
C39_Witness ==
    /\ Len(jobs) >= 2
    /\ Status(1) = "failed"
    /\ Status(2) = "completed"
    /\ claimedBy[2] = {1}

Delivered(bus, s) == bus.subscribers[s].delivered

\* C32: once a subscriber has unsubscribed its callback is not invoked any
\* more, not even for messages that were waiting in its buffer.
C32_NoCallbackAfterUnsubscribe ==
    [][\A s \in Subscribers :
           ~eventBus.subscribers[s].active
               => Delivered(eventBus', s) = Delivered(eventBus, s)]_vars

\* a subscriber left while a message was waiting in its buffer, and the
\* message was never handed to it
C32_Witness ==
    \E s \in Subscribers :
        /\ ~eventBus.subscribers[s].active
        /\ eventBus.subscribers[s].accepted = 1
        /\ eventBus.subscribers[s].buffer = <<>>
        /\ Delivered(eventBus, s) = <<>>
        /\ Len(eventBus.published) = MaxPublished

StrictlyIncreasing(messages) ==
    \A i \in 1..(Len(messages) - 1) : messages[i].seq < messages[i + 1].seq

C34_UpIdempotent ==
    [][(upLog'.again /\ upLog'.last \in Versions /\ <<db, upLog>>' # <<db, upLog>>)
           => upLog'.error = "" /\ db' = db]_vars

\* C40: a GET request whose path is the path of a fixed-path endpoint
\* (/api/queue/stats, /api/models/running, /api/models/downloaded, and the
\* two list endpoints) is answered by the handler of that endpoint, never
\* by the handler of a parameterised route.
C40_FixedPathOwnHandler ==
    \A r \in DOMAIN getRoutes :
        (/\ \A i \in DOMAIN getRoutes[r] : getRoutes[r][i] \notin Params
         /\ exchange.path = getRoutes[r])
            => exchange.route = r

====
